---- MODULE Spec2Model ----
(***************************************************************************)
(* Model of the note bot's resilient access layer: bot/api_client.py       *)
(* (APIClient: health probe, remote requests, per-owner fallback cache)    *)
(* against the storage service of server/main.py.                          *)
(*                                                                         *)
(* A call of an APIClient method is a frame th[t] of a worker thread t: pc *)
(* is the position in the method, the other fields are its arguments and   *)
(* local variables.  Every step holds one network call or one access to    *)
(* the shared cache.  Spec runs the calls one at a time (one thread);      *)
(* SpecConc interleaves the steps of the worker threads.                   *)
(***************************************************************************)
EXTENDS Integers, Sequences, FiniteSets, TLC

VARIABLES
    cache,      \* APIClient._cache: owner -> [present, notes]
    db,         \* the service's notes table, rows in insertion order
    nextId,     \* the next AUTOINCREMENT id of the notes table
    clock,      \* int(time.time() * 1000) as the bot's host reads it
    th,         \* thread -> frame of the APIClient call it runs
    lastLocal,  \* history: owner -> the note of the last degraded create,
                \*   while no probe has answered healthy since
    inval,      \* history: owner -> a remote mutation succeeded and nothing
                \*   has populated the owner's entry since
    staleEntry, \* history: owner -> the entry was installed by a read whose
                \*   fetch is older than a later successful remote mutation
    calls,      \* history: calls begun, counted where the run is bounded
    links,      \* the service's note_links table, rows in insertion order
    program,    \* the process that runs: bot.py, main.py, or the functions
                \*   of handlers.py applied to a MessageHandlers object
    user_states,\* chat -> the entry of user_states (handlers.py, main.py)
    handled,    \* history: the last message handled and what it did
    authors,    \* history: the users whose messages made the entries
    probe,      \* history: the last health_check run on its own
    served,     \* history: the service's last request and its answer
    journal     \* history: per owner the ids appended by the local
                \*   fallback and the ids a delete reported as deleted

\* the state of the conversation handlers
convVars == <<program, user_states, handled, authors>>

\* the histories of the probe, of the service and of the facade's calls
histVars == <<probe, served, journal>>

vars == <<cache, db, nextId, clock, th, lastLocal, inval, staleEntry, calls,
          links, convVars, histVars>>

----------------------------------------------------------------------------
(* Bounds *)

MaxOwner == 2       \* owners 1..MaxOwner
MaxRemote == 1      \* rows the service ever creates
MaxJournalRemote == 2   \* the same, where the journal of the calls is kept
MaxEntry == 2       \* a create is called only while the entry is shorter
MaxTicks == 1       \* clock readings ClockStart..ClockStart+MaxTicks
ClockStart == 5     \* the first clock reading
MaxThreads == 2     \* worker threads of SpecConc
MaxCalls == 3       \* calls of one run of SpecConc
MaxChat == 2        \* chats 1..MaxChat
MaxRows == 2        \* rows the service creates in SpecGraph
MaxLinks == 2       \* link rows the service holds in SpecGraph

Owners == 1..MaxOwner
Threads == 1..MaxThreads
MainThread == CHOOSE t \in Threads : TRUE
\* the bounded runs take their calls from one owner: the races are per key
CallOwners(bounded) == IF bounded THEN {CHOOSE o \in Owners : TRUE} ELSE Owners
ClockValues == ClockStart..(ClockStart + MaxTicks)
NoteIds == (1..MaxRemote) \cup ClockValues
Chats == 1..MaxChat

----------------------------------------------------------------------------
(* Strings are sequences of characters; an optional value is a sequence of *)
(* at most one element.                                                    *)

None == << >>
Some(v) == <<v>>

LowerChar(c) ==
    CASE c = "N" -> "n"
      [] c = "X" -> "x"
      [] c = "E" -> "e"
      [] c = "O" -> "o"
      [] OTHER -> c

\* str.lower()
Lower(s) == [i \in 1..Len(s) |-> LowerChar(s[i])]

\* needle in hay
Contains(hay, needle) ==
    \E i \in 0..(Len(hay) - Len(needle)) :
        SubSeq(hay, i + 1, i + Len(needle)) = needle

\* str(v) of an optional string: str(None) is the text "None"
PyStr(v) == IF v = None THEN <<"N", "o", "n", "e">> ELSE v[1]

NoteInputs ==
    { [title |-> <<"X">>, content |-> <<"e">>, tags |-> None],
      [title |-> <<"n", "o">>, content |-> <<"x">>, tags |-> Some(<<"N">>)] }

Queries == { <<"x">>, <<"N">>, <<"o", "n">>, <<"z">> }

NoInput == [title |-> << >>, content |-> << >>, tags |-> None]

\* A note as both the service's NoteResponse and the cache hold it.  Of
\* created_at only its kind is kept: the service's CURRENT_TIMESTAMP text
\* (local FALSE) or the float time.time() that _add_note_local stores
\* (local TRUE); nothing modelled reads its value.
Note(id, owner, inp) ==
    [id |-> id, user_id |-> owner, title |-> inp.title,
     content |-> inp.content, tags |-> inp.tags, local |-> FALSE]

\* the dict _add_note_local builds
LocalNote(id, owner, inp) == [Note(id, owner, inp) EXCEPT !.local = TRUE]

----------------------------------------------------------------------------
(* The cache: a dict keyed by f"notes_{user_id}".                          *)

Absent == [present |-> FALSE, notes |-> << >>]

HasKey(c, o) == c[o].present

\* self._cache[key] = v
Put(c, o, v) == [c EXCEPT ![o] = [present |-> TRUE, notes |-> v]]

\* self._cache.pop(key, None)
InvalidateKeep(c, o) == c
InvalidateAll(c, o) == [k \in DOMAIN c |-> Absent]
Invalidate(c, o) == [c EXCEPT ![o] = Absent]

\* [n for n in notes if n.get('id') != note_id]
RemoveById(notes, id) == SelectSeq(notes, LAMBDA n : n.id # id)

HasId(notes, id) == \E i \in 1..Len(notes) : notes[i].id = id

----------------------------------------------------------------------------
(* The storage service (server/main.py).                                   *)

Reverse(s) == [i \in 1..Len(s) |-> s[Len(s) + 1 - i]]

\* Database.get_user_notes: the owner's rows, newest first
DbList(rows, owner) ==
    Reverse(SelectSeq(rows, LAMBDA n : n.user_id = owner))

\* Database.add_note: INSERT, returns lastrowid
DbAdd(rows, id, owner, inp) == Append(rows, Note(id, owner, inp))

\* Database.delete_note: rowcount > 0 iff a row has this id and this owner
DbOwns(rows, id, owner) ==
    \E i \in 1..Len(rows) : rows[i].id = id /\ rows[i].user_id = owner

DbDelete(rows, id, owner) ==
    SelectSeq(rows, LAMBDA n : ~(n.id = id /\ n.user_id = owner))

\* Database.delete_note, first statement: every link of the note goes,
\* whoever owns the note
DbDeleteLinksKeep(ls, id) == ls
DbDeleteLinks(ls, id) == SelectSeq(ls, LAMBDA l : l.from # id /\ l.to # id)

\* Database.add_link: both notes must be rows of the user
DbLinkAllowedFromOnly(rows, from, to, user) == DbOwns(rows, from, user)
DbLinkAllowed(rows, from, to, user) ==
    DbOwns(rows, from, user) /\ DbOwns(rows, to, user)

DbAddLink(ls, from, to) == Append(ls, [from |-> from, to |-> to])

\* Database.get_all_notes_graph: notes, the dict id -> title of the owner
OwnedIds(rows, owner) ==
    {rows[i].id : i \in {j \in 1..Len(rows) : rows[j].user_id = owner}}

TitleOf(rows, id) == rows[CHOOSE i \in 1..Len(rows) : rows[i].id = id].title

GraphNotes(rows, owner) ==
    [id \in OwnedIds(rows, owner) |-> TitleOf(rows, id)]

\* the link rows with both ends among the owner's notes
OwnedLinks(rows, ls, owner) ==
    SelectSeq(ls, LAMBDA l : /\ l.from \in OwnedIds(rows, owner)
                             /\ l.to \in OwnedIds(rows, owner))

\* "if k not in graph: graph[k] = []"
WithKey(g, k) ==
    [x \in DOMAIN g \cup {k} |-> IF x \in DOMAIN g THEN g[x] ELSE << >>]

\* one turn of the loop over the link rows
AddEdgeOneWay(g, from, to) ==
    LET g2 == WithKey(WithKey(g, from), to)
    IN  [g2 EXCEPT ![from] = Append(@, to)]
AddEdge(g, from, to) ==
    LET g2 == WithKey(WithKey(g, from), to)
        g3 == [g2 EXCEPT ![from] = Append(@, to)]
    IN  [g3 EXCEPT ![to] = Append(@, from)]

RECURSIVE BuildGraph(_, _)
BuildGraph(ls, g) ==
    IF ls = << >> THEN g
    ELSE BuildGraph(Tail(ls), AddEdge(g, Head(ls).from, Head(ls).to))

EmptyGraph == [x \in {} |-> << >>]

\* what GET /api/notes/{user_id}/graph answers
GetAllNotesGraph(rows, ls, owner) ==
    [notes |-> GraphNotes(rows, owner),
     graph |-> BuildGraph(OwnedLinks(rows, ls, owner), EmptyGraph)]

----------------------------------------------------------------------------
(* APIClient._make_request: what the call returns for each outcome of the  *)
(* exchange.  A result is None, the empty object {}, an object or a list.  *)

NetOutcomes ==
    {"ok", "empty", "transport", "timeout", "http", "decode", "unexpected"}

\* Whether the service ran the request: a refused connection and a gateway's
\* error status did not reach it; a reset connection or a timeout may have.
Processed(net) ==
    CASE net \in {"ok", "empty", "decode"} -> {TRUE}
      [] net \in {"transport", "timeout"} -> {FALSE, TRUE}
      [] OTHER -> {FALSE}

ResNone == [kind |-> "none", id |-> 0, notes |-> << >>]
\* no result: an exception left _make_request (no except branch took it)
ResRaised == [kind |-> "raised", id |-> 0, notes |-> << >>]
ResEmpty == [kind |-> "empty", id |-> 0, notes |-> << >>]
ResObj(id) == [kind |-> "obj", id |-> id, notes |-> << >>]
ResList(notes) == [kind |-> "list", id |-> 0, notes |-> notes]

\* The service's answer: a status and a JSON body
ReplyOk(body) == [status |-> 200, body |-> body]
ReplyNotFound == [status |-> 404, body |-> ResNone]

\* The status the client sees: "http" is an error status of a gateway,
\* "empty" a 204 in place of the service's 2xx.
SeenStatus(net, reply) ==
    IF net = "http" THEN 502
    ELSE IF net = "empty" /\ reply.status < 400 THEN 204
    ELSE reply.status

\* session.request raised; raise_for_status raised; 204 gives {};
\* response.json() raised; else the body.  Every except branch gives None.
MakeRequestDecodeEscapes(net, reply) ==
    CASE net \in {"transport", "timeout", "unexpected"} -> ResNone
      [] SeenStatus(net, reply) >= 400 -> ResNone
      [] SeenStatus(net, reply) = 204 -> ResEmpty
      [] net = "decode" -> ResRaised
      [] OTHER -> reply.body
MakeRequest(net, reply) ==
    CASE net \in {"transport", "timeout", "unexpected"} -> ResNone
      [] SeenStatus(net, reply) >= 400 -> ResNone
      [] SeenStatus(net, reply) = 204 -> ResEmpty
      [] net = "decode" -> ResNone
      [] OTHER -> reply.body

\* Python truth value of a result: None, {} and [] are false
Truthy(r) == r.kind = "obj" \/ (r.kind = "list" /\ r.notes # << >>)

\* isinstance(result, list)
IsListNonEmpty(r) == r.kind = "list" /\ r.notes # << >>
IsListOrNone(r) == r.kind \in {"list", "none"}
IsList(r) == r.kind = "list"
IsDict(r) == r.kind \in {"obj", "empty"}

----------------------------------------------------------------------------
(* APIClient.health_check: the liveness paths in order; -1 is a request    *)
(* that raised (refused, timed out).                                       *)

Endpoints == <<"/health", "/api/health", "/api/docs", "/">>
PathResponses == {-1, 200, 404, 500}
ProbeAnswers == [1..Len(Endpoints) -> PathResponses]

ServerErrorFrom == 500

HealthCheck(resp) ==
    \E i \in 1..Len(Endpoints) : resp[i] # -1 /\ resp[i] < ServerErrorFrom

\* what health_check() can return, over every answer of the paths
ProbeResults == {HealthCheck(resp) : resp \in ProbeAnswers}

\* The loop of health_check over one path: "except: continue" for a request
\* that raised, no return for a status_code of 500 or more.
SkippedOnlyRaised(status) == status = -1
Skipped(status) == status = -1 \/ status >= ServerErrorFrom

\* the loop from path i on: the value returned and the last path requested
RECURSIVE ProbeFrom(_, _)
ProbeFrom(resp, i) ==
    IF i > Len(Endpoints) THEN [healthy |-> FALSE, tried |-> i - 1]
    ELSE IF ~Skipped(resp[i]) THEN [healthy |-> TRUE, tried |-> i]
    ELSE ProbeFrom(resp, i + 1)

HealthCheckRun(resp) == ProbeFrom(resp, 1)

NoProbe == [resp |-> << >>, healthy |-> FALSE, tried |-> 0, raised |-> FALSE]

----------------------------------------------------------------------------
(* Frames.  A return value is one record for every method: an object with  *)
(* an id (add_note), a list (get_user_notes, search_notes), a note or None *)
(* (get_note_by_id), a graph (get_note_graph), a boolean (delete_note).    *)

Ops == {"add", "list", "search", "get", "graph", "delete"}

RetNone == [kind |-> "none", id |-> 0, notes |-> << >>, ok |-> FALSE,
            origin |-> "none"]
RetObj(id, origin) == [RetNone EXCEPT !.kind = "obj", !.id = id,
                                      !.origin = origin]
RetList(notes) == [RetNone EXCEPT !.kind = "list", !.notes = notes]
RetNote(n, origin) == [RetNone EXCEPT !.kind = "note", !.id = n.id,
                                      !.notes = <<n>>, !.origin = origin]
RetGraph(nodes, origin) == [RetNone EXCEPT !.kind = "graph", !.notes = nodes,
                                           !.origin = origin]
RetBool(b) == [RetNone EXCEPT !.kind = "bool", !.ok = b]
\* no value: the call ended with an exception
RetRaised == [RetNone EXCEPT !.kind = "raised"]

IdleFrame ==
    [pc |-> "idle", op |-> "none", owner |-> 0, nid |-> 0, inp |-> NoInput,
     query |-> << >>,
     h |-> FALSE,           \* the last health_check() of the call
     result |-> ResNone,    \* local result
     notes |-> << >>,       \* local notes (the filtered list in delete_note)
     olen |-> 0,            \* local original_len
     lid |-> 0,             \* local note_id of _add_note_local
     ret |-> RetNone,       \* the value returned
     nprobe |-> 0,          \* history: health probes of the call
     reqs |-> << >>,        \* history: requests of the call, in order
     nlocal |-> 0,          \* history: _add_note_local runs of the call
     ran |-> FALSE,         \* history: the service ran the call's create
     pre |-> Absent,        \* history: the owner's entry when called
     inv0 |-> FALSE,        \* history: inval[owner] when called
     stale |-> FALSE]       \* history: a remote mutation of the owner
                            \*   succeeded after this call's fetch

----------------------------------------------------------------------------
(* Conversations: user_states maps a chat id to a dict with the key 'state' *)
(* and, once collected, 'title' and 'content'.  A message text is a         *)
(* sequence of characters.                                                  *)

Programs == {"bot", "main", "unit"}

\* the command /new and the text of the cancel button ("x" is its cross mark)
NewCommand == <<"/", "n", "e", "w">>
CancelText == <<"x", " ", "O", "t", "m", "e", "n", "a">>

\* message.text of the text messages sent
Texts == {NewCommand, CancelText, <<"a">>, <<" ", "b", " ">>, <<" ">>}

NoEntry == [present |-> FALSE, state |-> "idle", title |-> None,
            content |-> None]

Entry(state, title, content) ==
    [present |-> TRUE, state |-> state, title |-> title, content |-> content]

\* history of an entry: the user whose /new created it and the users whose
\* messages gave its title and its content (0: nobody yet)
NoAuthors == [new |-> 0, title |-> 0, content |-> 0]

\* kept (on) where a run follows who wrote the entry of a chat
NoAuthorship == [on |-> FALSE, of |-> [c \in Chats |-> NoAuthors]]

\* new_note_command in chat c for user u
AuthorsOfNew(a, c, u) ==
    IF a.on THEN [a EXCEPT !.of[c] = [NoAuthors EXCEPT !.new = u]] ELSE a

\* a message of user u took the entry of chat c from e to e2
AuthorsAfter(a, c, e, e2, u) ==
    IF ~a.on THEN a
    ELSE IF e.present /\ e2.present /\ e.state = "waiting_title"
            /\ e2.state = "waiting_content"
    THEN [a EXCEPT !.of[c].title = u]
    ELSE IF e.present /\ e2.present /\ e.state = "waiting_content"
            /\ e2.state = "waiting_tags"
    THEN [a EXCEPT !.of[c].content = u]
    ELSE a

NoHandled ==
    [via |-> "none", chat |-> 0, user |-> 0, text |-> << >>,
     before |-> [c \in Chats |-> NoEntry],   \* user_states when it arrived
     creates |-> << >>,                      \* the add_note calls it made
     result |-> "none",                      \* what add_note returned
     raised |-> FALSE]                       \* the handler raised

\* The journal of the facade's calls, kept where a run follows the notes of
\* the owners over several calls (on): live[o] are the ids of the notes
\* that _add_note_local appended for o and for which no delete_note has
\* returned True since, deleted[o] the ids for which one has.
NoJournal ==
    [on |-> FALSE, live |-> [o \in Owners |-> {}],
     deleted |-> [o \in Owners |-> {}]]

\* _add_note_local appended a note with this id for o (a new note: the id
\* no longer names a note reported as deleted)
JournalAdded(j, o, id) ==
    IF j.on THEN [j EXCEPT !.live[o] = @ \cup {id}, !.deleted[o] = @ \ {id}]
    ELSE j

\* the rows the service creates in a run
RemoteCap(j) == IF j.on THEN MaxJournalRemote ELSE MaxRemote

\* delete_note(id, o) returned True
JournalDeleted(j, o, id) ==
    IF j.on THEN [j EXCEPT !.live[o] = @ \ {id}, !.deleted[o] = @ \cup {id}]
    ELSE j

\* no request served yet
NoServed ==
    [req |-> "none", from |-> 0, to |-> 0, user |-> 0, status |-> 0,
     db |-> << >>, links |-> << >>]     \* the tables when it arrived

\* history: the request and the status of its answer
Served(req, from, to, user, status) ==
    [req |-> req, from |-> from, to |-> to, user |-> user, status |-> status,
     db |-> db, links |-> links]

FirstPc(op) ==
    CASE op = "add" -> "add_probe"
      [] op = "delete" -> "del_probe"
      [] op \in {"list", "search"} -> "list_cache"
      [] OTHER -> "rd_probe"

\* the state after the start of program p
InitOf(p) ==
    /\ cache = [o \in Owners |-> Absent]
    /\ db = << >>
    /\ nextId = 1
    /\ clock = ClockStart
    /\ th = [t \in Threads |-> IdleFrame]
    /\ lastLocal = [o \in Owners |-> None]
    /\ inval = [o \in Owners |-> FALSE]
    /\ staleEntry = [o \in Owners |-> FALSE]
    /\ calls = 0
    /\ links = << >>
    /\ program = p
    /\ user_states = [c \in Chats |-> NoEntry]
    /\ handled = NoHandled
    /\ authors = NoAuthorship
    /\ probe = NoProbe
    /\ served = NoServed
    /\ journal = NoJournal

\* bot.py builds the APIClient
Init == InitOf("bot")

\* The host's clock advances between any two steps.
Tick ==
    /\ clock < ClockStart + MaxTicks
    /\ clock' = clock + 1
    /\ UNCHANGED <<cache, db, nextId, th, lastLocal, inval, staleEntry, calls,
                 links, convVars, histVars>>

\* A handler calls a method of the shared APIClient.
Call(t, bounded) ==
    /\ th[t].pc = "idle"
    /\ IF bounded THEN calls < MaxCalls /\ calls' = calls + 1
       ELSE UNCHANGED calls
    /\ \E op \in Ops, o \in CallOwners(bounded \/ journal.on), id \in NoteIds,
          inp \in NoteInputs, q \in Queries :
        /\ op = "add" => Len(cache[o].notes) < MaxEntry
        /\ op # "add" => inp = CHOOSE i \in NoteInputs : TRUE
        /\ op \notin {"get", "delete"} => id = CHOOSE i \in NoteIds : TRUE
        /\ op # "search" => q = CHOOSE x \in Queries : TRUE
        /\ th' = [th EXCEPT ![t] =
                    [IdleFrame EXCEPT
                        !.pc = FirstPc(op), !.op = op, !.owner = o,
                        !.nid = IF op \in {"get", "delete"} THEN id ELSE 0,
                        !.inp = IF op = "add" THEN inp ELSE NoInput,
                        !.query = IF op = "search" THEN q ELSE << >>,
                        !.pre = cache[o], !.inv0 = inval[o]]]
    /\ UNCHANGED <<cache, db, nextId, clock, lastLocal, inval, staleEntry,
                 links, convVars, histVars>>

----------------------------------------------------------------------------
(* Pure parts of the methods.                                              *)

\* _add_note_local: create the entry if missing, append the note
AddNoteLocalOverwrite(c, o, inp, now) == Put(c, o, <<LocalNote(now, o, inp)>>)
AddNoteLocalSeqId(c, o, inp, now) ==
    Put(c, o, Append(c[o].notes, LocalNote(Len(c[o].notes), o, inp)))
AddNoteLocal(c, o, inp, now) ==
    Put(c, o, Append(c[o].notes, LocalNote(now, o, inp)))

\* add_note: "if result:" fails for None and for {}
AddFallsBackOnNoneOnly(result) == result.kind = "none"
AddFallsBack(result) == ~Truthy(result)

\* delete_note: "if result is not None:"
DeleteSucceededIfTruthy(result) == Truthy(result)
DeleteSucceeded(result) == result.kind # "none"

\* get_user_notes: "if cache_key in self._cache:"
CacheHitNever(c, o) == FALSE
CacheHit(c, o) == HasKey(c, o)

\* search_notes: the test of one note; str(None) is searched as "None"
SearchMatches(n, q) ==
    LET ql == Lower(q) IN
        \/ Contains(Lower(n.title), ql)
        \/ Contains(Lower(n.content), ql)
        \/ Contains(Lower(PyStr(n.tags)), ql)

\* search_notes after get_user_notes
SearchNotes(notes, q) ==
    IF notes = << >> THEN << >>
    ELSE SelectSeq(notes, LAMBDA n : SearchMatches(n, q))

\* get_note_by_id: the first cached note with the id
FindById(notes, id) ==
    IF HasId(notes, id)
    THEN RetNote(notes[CHOOSE i \in 1..Len(notes) :
                        /\ notes[i].id = id
                        /\ \A j \in 1..(i - 1) : notes[j].id # id], "local")
    ELSE RetNone

PreviewLen == 100

Preview(s) == SubSeq(s, 1, IF Len(s) < PreviewLen THEN Len(s) ELSE PreviewLen)

\* get_note_graph: the graph built from the owner's notes, no links.
\* notes_dict is keyed by str(note['id']): an id that occurs again keeps
\* its place and takes the later note's value.
LocalGraph(notes) ==
    LET first == SelectSeq([i \in 1..Len(notes) |-> i],
                    LAMBDA i : \A j \in 1..(i - 1) : notes[j].id # notes[i].id)
        last(id) == notes[CHOOSE i \in 1..Len(notes) :
                            /\ notes[i].id = id
                            /\ \A j \in (i + 1)..Len(notes) : notes[j].id # id]
    IN  [k \in 1..Len(first) |->
            LET n == last(notes[first[k]].id)
            IN  [id |-> n.id, title |-> n.title,
                 content |-> Preview(n.content), links |-> << >>]]

\* Database.get_all_notes_graph: the owner's id -> title
DbGraphNodes(rows, owner) ==
    LET mine == SelectSeq(rows, LAMBDA n : n.user_id = owner) IN
        [i \in 1..Len(mine) |-> [id |-> mine[i].id, title |-> mine[i].title]]

RetOfResult(r) ==
    [RetNone EXCEPT !.kind = r.kind, !.id = r.id, !.notes = r.notes,
                    !.origin = "remote"]

\* What the method returns once get_user_notes has yielded notes
Complete(f, notes) ==
    [f EXCEPT !.pc = "done", !.notes = notes,
              !.ret = CASE f.op = "list" -> RetList(notes)
                        [] f.op = "search" ->
                                RetList(SearchNotes(notes, f.query))
                        [] f.op = "get" -> FindById(notes, f.nid)
                        [] OTHER -> RetGraph(LocalGraph(notes), "local")]

\* an exception that leaves _make_request leaves the method that called it
Escapes(result) == result.kind = "raised"

Raise(f) == [f EXCEPT !.pc = "done", !.ret = RetRaised]

\* history: a remote mutation of owner o by thread t succeeded; the reads
\* of o that have fetched and not yet installed hold older data
MarkStale(frames, t, o) ==
    [u \in Threads |->
        IF u # t /\ frames[u].owner = o /\ frames[u].pc = "list_install"
        THEN [frames[u] EXCEPT !.stale = TRUE]
        ELSE frames[u]]

NoLastLocal == [o \in Owners |-> None]

----------------------------------------------------------------------------
(* add_note                                                                *)

\* the frame after _add_note_local ran at clock reading now
AddedLocal(f, now) ==
    [f EXCEPT !.pc = "done", !.lid = now, !.nlocal = @ + 1,
              !.ret = RetObj(now, "local")]

\* "if not self.health_check(): return self._add_note_local(...)"
AddProbe(t) ==
    LET f == th[t] IN
    /\ f.pc = "add_probe"
    /\ \E h \in ProbeResults :
        LET g == [f EXCEPT !.h = h, !.nprobe = @ + 1]
        IN  IF h
            THEN /\ th' = [th EXCEPT ![t] = [g EXCEPT !.pc = "add_req"]]
                 /\ lastLocal' = NoLastLocal
                 /\ UNCHANGED <<cache, inval, journal>>
            ELSE /\ cache' = AddNoteLocal(cache, f.owner, f.inp, clock)
                 /\ th' = [th EXCEPT ![t] = AddedLocal(g, clock)]
                 /\ lastLocal' = [lastLocal EXCEPT ![f.owner] =
                                    Some(LocalNote(clock, f.owner, f.inp))]
                 /\ inval' = [inval EXCEPT ![f.owner] = FALSE]
                 /\ journal' = JournalAdded(journal, f.owner, clock)
    /\ UNCHANGED <<db, nextId, clock, staleEntry, calls,
                 links, convVars, probe, served>>

\* POST /api/notes, then the pop of the owner's entry or the local append
\* (once the service holds MaxRemote rows, no create reaches it any more)
AddReq(t) ==
    LET f == th[t] IN
    /\ f.pc = "add_req"
    /\ \E net \in NetOutcomes : \E ran \in Processed(net) :
        LET reply == ReplyOk(ResObj(nextId))
            result == MakeRequest(net, reply)
            g == [f EXCEPT !.result = result, !.ran = ran,
                           !.reqs = Append(@, "POST /api/notes")]
        IN  /\ ran => nextId <= RemoteCap(journal)
            /\ db' = IF ran THEN DbAdd(db, nextId, f.owner, f.inp) ELSE db
            /\ nextId' = IF ran THEN nextId + 1 ELSE nextId
            /\ IF Escapes(result)
               THEN /\ th' = [th EXCEPT ![t] = Raise(g)]
                    /\ UNCHANGED <<cache, inval, staleEntry, journal>>
               ELSE IF ~AddFallsBack(result)
               THEN /\ cache' = Invalidate(cache, f.owner)
                    /\ th' = MarkStale(
                                [th EXCEPT ![t] =
                                    [g EXCEPT !.pc = "done",
                                              !.ret = RetOfResult(result)]],
                                t, f.owner)
                    /\ inval' = [inval EXCEPT ![f.owner] = TRUE]
                    /\ staleEntry' = [staleEntry EXCEPT ![f.owner] = FALSE]
                    /\ UNCHANGED journal
               ELSE /\ cache' = AddNoteLocal(cache, f.owner, f.inp, clock)
                    /\ th' = [th EXCEPT ![t] = AddedLocal(g, clock)]
                    /\ inval' = [inval EXCEPT ![f.owner] = FALSE]
                    /\ journal' = JournalAdded(journal, f.owner, clock)
                    /\ UNCHANGED staleEntry
    /\ UNCHANGED <<clock, lastLocal, calls,
                 links, convVars, probe, served>>

----------------------------------------------------------------------------
(* get_user_notes, and the methods that end in it                          *)

\* "if cache_key in self._cache: return self._cache[cache_key]"
ListCache(t) ==
    LET f == th[t] IN
    /\ f.pc = "list_cache"
    /\ th' = [th EXCEPT ![t] =
                IF CacheHit(cache, f.owner)
                THEN Complete(f, cache[f.owner].notes)
                ELSE [f EXCEPT !.pc = "list_probe"]]
    /\ UNCHANGED <<cache, db, nextId, clock, lastLocal, inval, staleEntry, calls,
                 links, convVars, histVars>>

\* "if self.health_check():", else the empty list
ListProbe(t) ==
    LET f == th[t] IN
    /\ f.pc = "list_probe"
    /\ \E h \in ProbeResults :
        LET g == [f EXCEPT !.h = h, !.nprobe = @ + 1]
        IN  /\ th' = [th EXCEPT ![t] =
                        IF h THEN [g EXCEPT !.pc = "list_req"]
                        ELSE Complete(g, << >>)]
            /\ lastLocal' = IF h THEN NoLastLocal ELSE lastLocal
    /\ UNCHANGED <<cache, db, nextId, clock, inval, staleEntry, calls,
                 links, convVars, histVars>>

\* GET /api/notes/{user_id}; "if isinstance(result, list):"
ListReq(t) ==
    LET f == th[t] IN
    /\ f.pc = "list_req"
    /\ \E net \in NetOutcomes :
        LET reply == ReplyOk(ResList(DbList(db, f.owner)))
            result == MakeRequest(net, reply)
            g == [f EXCEPT !.result = result,
                           !.reqs = Append(@, "GET /api/notes/{user_id}")]
        IN  th' = [th EXCEPT ![t] =
                    IF Escapes(result) THEN Raise(g)
                    ELSE IF IsList(result) THEN [g EXCEPT !.pc = "list_install"]
                    ELSE Complete(g, << >>)]
    /\ UNCHANGED <<cache, db, nextId, clock, lastLocal, inval, staleEntry, calls,
                 links, convVars, histVars>>

\* "self._cache[cache_key] = result; return result"
ListInstall(t) ==
    LET f == th[t] IN
    /\ f.pc = "list_install"
    /\ cache' = Put(cache, f.owner, f.result.notes)
    /\ th' = [th EXCEPT ![t] = Complete(f, f.result.notes)]
    /\ inval' = [inval EXCEPT ![f.owner] = FALSE]
    /\ staleEntry' = [staleEntry EXCEPT ![f.owner] = f.stale]
    /\ UNCHANGED <<db, nextId, clock, lastLocal, calls,
                 links, convVars, histVars>>

\* get_note_graph, get_note_by_id: "if self.health_check():"
ReadProbe(t) ==
    LET f == th[t] IN
    /\ f.pc = "rd_probe"
    /\ \E h \in ProbeResults :
        /\ th' = [th EXCEPT ![t] =
                    [f EXCEPT !.h = h, !.nprobe = @ + 1,
                              !.pc = IF h THEN "rd_req" ELSE "list_cache"]]
        /\ lastLocal' = IF h THEN NoLastLocal ELSE lastLocal
    /\ UNCHANGED <<cache, db, nextId, clock, inval, staleEntry, calls,
                 links, convVars, histVars>>

\* GET /api/notes/{user_id}/graph, or GET /api/notes/{note_id}, which the
\* service routes to get_notes(user_id = note_id) and answers with a list;
\* "if result and isinstance(result, dict): return result"
ReadReq(t) ==
    LET f == th[t] IN
    /\ f.pc = "rd_req"
    /\ \E net \in NetOutcomes :
        LET reply == IF f.op = "graph"
                     THEN ReplyOk([ResObj(0) EXCEPT
                                    !.notes = DbGraphNodes(db, f.owner)])
                     ELSE ReplyOk(ResList(DbList(db, f.nid)))
            result == MakeRequest(net, reply)
            g == [f EXCEPT !.result = result,
                           !.reqs = Append(@,
                                IF f.op = "graph"
                                THEN "GET /api/notes/{user_id}/graph"
                                ELSE "GET /api/notes/{note_id}")]
        IN  th' = [th EXCEPT ![t] =
                    IF Escapes(result) THEN Raise(g)
                    ELSE IF Truthy(result) /\ IsDict(result)
                    THEN [g EXCEPT !.pc = "done", !.ret = RetOfResult(result)]
                    ELSE [g EXCEPT !.pc = "list_cache"]]
    /\ UNCHANGED <<cache, db, nextId, clock, lastLocal, inval, staleEntry, calls,
                 links, convVars, histVars>>

----------------------------------------------------------------------------
(* delete_note                                                             *)

\* "if self.health_check():", else the local removal
DelProbe(t) ==
    LET f == th[t] IN
    /\ f.pc = "del_probe"
    /\ \E h \in ProbeResults :
        /\ th' = [th EXCEPT ![t] =
                    [f EXCEPT !.h = h, !.nprobe = @ + 1,
                              !.pc = IF h THEN "del_req" ELSE "del_local"]]
        /\ lastLocal' = IF h THEN NoLastLocal ELSE lastLocal
    /\ UNCHANGED <<cache, db, nextId, clock, inval, staleEntry, calls,
                 links, convVars, histVars>>

\* DELETE /api/notes/{note_id}?user_id=: 404 unless the owner has the row;
\* on a result the pop of the owner's entry and True
DelReq(t) ==
    LET f == th[t] IN
    /\ f.pc = "del_req"
    /\ \E net \in NetOutcomes : \E ran \in Processed(net) :
        LET reply == IF DbOwns(db, f.nid, f.owner)
                     THEN ReplyOk(ResObj(0)) ELSE ReplyNotFound
            result == MakeRequest(net, reply)
            g == [f EXCEPT !.result = result,
                           !.reqs = Append(@, "DELETE /api/notes/{note_id}")]
        IN  /\ db' = IF ran THEN DbDelete(db, f.nid, f.owner) ELSE db
            /\ links' = IF ran THEN DbDeleteLinks(links, f.nid) ELSE links
            /\ IF Escapes(result)
               THEN /\ th' = [th EXCEPT ![t] = Raise(g)]
                    /\ UNCHANGED <<cache, inval, staleEntry, journal>>
               ELSE IF DeleteSucceeded(result)
               THEN /\ cache' = Invalidate(cache, f.owner)
                    /\ th' = MarkStale(
                                [th EXCEPT ![t] =
                                    [g EXCEPT !.pc = "done",
                                              !.ret = RetBool(TRUE)]],
                                t, f.owner)
                    /\ inval' = [inval EXCEPT ![f.owner] = TRUE]
                    /\ staleEntry' = [staleEntry EXCEPT ![f.owner] = FALSE]
                    /\ journal' = JournalDeleted(journal, f.owner, f.nid)
               ELSE /\ th' = [th EXCEPT ![t] = [g EXCEPT !.pc = "del_local"]]
                    /\ UNCHANGED <<cache, inval, staleEntry, journal>>
    /\ UNCHANGED <<nextId, clock, lastLocal, calls, convVars, probe, served>>

\* "if cache_key in self._cache:", original_len and the filtered copy
DelLocal(t) ==
    LET f == th[t] IN
    /\ f.pc = "del_local"
    /\ th' = [th EXCEPT ![t] =
                IF HasKey(cache, f.owner)
                THEN [f EXCEPT !.pc = "del_write",
                               !.olen = Len(cache[f.owner].notes),
                               !.notes = RemoveById(cache[f.owner].notes,
                                                    f.nid)]
                ELSE [f EXCEPT !.pc = "done", !.ret = RetBool(FALSE)]]
    /\ UNCHANGED <<cache, db, nextId, clock, lastLocal, inval, staleEntry, calls,
                 links, convVars, histVars>>

\* "self._cache[cache_key] = [...]" and the comparison of the lengths
DelWrite(t) ==
    LET f == th[t] IN
    /\ f.pc = "del_write"
    /\ cache' = Put(cache, f.owner, f.notes)
    /\ th' = [th EXCEPT ![t] =
                [f EXCEPT !.pc = "done",
                          !.ret = RetBool(Len(f.notes) < f.olen)]]
    /\ lastLocal' =
        IF /\ Len(f.notes) < f.olen
           /\ lastLocal[f.owner] # None
           /\ lastLocal[f.owner][1].id = f.nid
        THEN [lastLocal EXCEPT ![f.owner] = None]
        ELSE lastLocal
    /\ journal' = IF Len(f.notes) < f.olen
                  THEN JournalDeleted(journal, f.owner, f.nid)
                  ELSE journal
    /\ UNCHANGED <<db, nextId, clock, inval, staleEntry, calls,
                 links, convVars, probe, served>>

\* the timeout argument _make_request gives session.request: none (the
\* probe gives timeout=3, and a path that times out counts as failed)
RequestTimeout == None

\* without a timeout session.request waits for the answer without limit
WaitsForever(timeout) == timeout = None

RequestPcs == {"add_req", "list_req", "rd_req", "del_req"}

\* The remote took the connection of a data request and never answers it:
\* the call stays inside session.request.
RequestHangs(t) ==
    /\ th[t].pc \in RequestPcs
    /\ WaitsForever(RequestTimeout)
    /\ th' = [th EXCEPT ![t] = [@ EXCEPT !.pc = "blocked"]]
    /\ UNCHANGED <<cache, db, nextId, clock, lastLocal, inval, staleEntry, calls,
                 links, convVars, histVars>>

\* The handler has used the value returned; the thread is free again.
Return(t) ==
    /\ th[t].pc = "done"
    /\ th' = [th EXCEPT ![t] = IdleFrame]
    /\ UNCHANGED <<cache, db, nextId, clock, lastLocal, inval, staleEntry, calls,
                 links, convVars, histVars>>

----------------------------------------------------------------------------
(* The conversation handlers.  A handler runs from the arrival of its      *)
(* message to its end before the next message is handled.  bot.send_message *)
(* comes after every change of user_states in each branch and changes none *)
(* of the state modelled.  The effect of add_note on the cache and on the  *)
(* store is the subject of Spec; here the call is recorded with its        *)
(* arguments and its value is one of those add_note can return.            *)

RECURSIVE LStrip(_)
LStrip(s) == IF s # << >> /\ Head(s) = " " THEN LStrip(Tail(s)) ELSE s

\* str.strip()
Strip(s) == Reverse(LStrip(Reverse(LStrip(s))))

\* tags = message.text.strip() or None
TagsUnstripped(text) == Some(text)
TagsOf(text) == IF Strip(text) = << >> THEN None ELSE Some(Strip(text))

\* the keyword arguments of an add_note call
CreateCall(user, title, content, tags) ==
    [user_id |-> user, title |-> title, content |-> content, tags |-> tags]

\* what add_note returns: the facade of api_client.py a note object, remote
\* or local; the client of main.py the body of a 201 answer or None
AddResults(p) == IF p = "main" THEN {"remote", "none"} ELSE {"remote", "local"}

\* new_note_command: user_states[chat_id] = {'state': 'waiting_title'}
NewNoteEntryKeep(e) ==
    IF e.present THEN e ELSE Entry("waiting_title", None, None)
NewNoteEntry(e) == Entry("waiting_title", None, None)

\* "del user_states[chat_id]" after add_note returned result
AfterCommitIfCreated(e, result) == IF result = "none" THEN e ELSE NoEntry
AfterCommit(e, result) == NoEntry

\* what a handler does to the chat's entry, and the add_note calls it makes
Outcome(e, creates) == [entry |-> e, creates |-> creates]

\* _handle_state_message of handlers.py, on the entry e of the chat
HandleStateMessageSkip(e, user, text, result) ==
    IF ~e.present THEN Outcome(e, << >>)
    ELSE IF text = CancelText THEN Outcome(NoEntry, << >>)
    ELSE CASE e.state = "waiting_title" ->
                Outcome(Entry("waiting_tags", Some(text), None), << >>)
           [] e.state = "waiting_content" ->
                IF e.title = None THEN Outcome(NoEntry, << >>)
                ELSE Outcome(Entry("waiting_tags", e.title, Some(text)), << >>)
           [] e.state = "waiting_tags" ->
                IF e.title = None \/ e.content = None
                THEN Outcome(NoEntry, << >>)
                ELSE Outcome(AfterCommit(e, result),
                             <<CreateCall(user, e.title[1], e.content[1],
                                          TagsOf(text))>>)
           [] OTHER -> Outcome(e, << >>)
HandleStateMessage(e, user, text, result) ==
    IF ~e.present THEN Outcome(e, << >>)
    ELSE IF text = CancelText THEN Outcome(NoEntry, << >>)
    ELSE CASE e.state = "waiting_title" ->
                Outcome(Entry("waiting_content", Some(text), None), << >>)
           [] e.state = "waiting_content" ->
                IF e.title = None THEN Outcome(NoEntry, << >>)
                ELSE Outcome(Entry("waiting_tags", e.title, Some(text)), << >>)
           [] e.state = "waiting_tags" ->
                IF e.title = None \/ e.content = None
                THEN Outcome(NoEntry, << >>)
                ELSE Outcome(AfterCommit(e, result),
                             <<CreateCall(user, e.title[1], e.content[1],
                                          TagsOf(text))>>)
           [] OTHER -> Outcome(e, << >>)

\* handle_all_messages of main.py, the branch "if chat_id in user_states"
MainStateMessage(e, user, text, result) ==
    CASE e.state = "waiting_title" ->
            Outcome(Entry("waiting_content", Some(text), None), << >>)
      [] e.state = "waiting_content" ->
            Outcome(Entry("waiting_tags", e.title, Some(text)), << >>)
      [] e.state = "waiting_tags" ->
            Outcome(AfterCommit(e, result),
                    <<CreateCall(user, e.title[1], e.content[1],
                                 TagsOf(text))>>)
      [] OTHER -> Outcome(e, << >>)

\* history: the message and what its handler did
Handled(via, c, u, text, creates, result, raised) ==
    [via |-> via, chat |-> c, user |-> u, text |-> text,
     before |-> user_states, creates |-> creates,
     result |-> IF creates = << >> THEN "none" ELSE result,
     raised |-> raised]

\* The command /new reaches new_note_command in each program: through
\* new_note_wrapper of bot.py, as the handler of main.py, or called.
NewNote(c, u) ==
    /\ user_states' = [user_states EXCEPT ![c] = NewNoteEntry(@)]
    /\ handled' = Handled("new", c, u, NewCommand, << >>, "none", FALSE)
    /\ authors' = AuthorsOfNew(authors, c, u)
    /\ UNCHANGED <<cache, db, nextId, clock, th, lastLocal, inval, staleEntry,
                   calls, links, program, histVars>>

\* bot.py: any other text reaches MessageHandlers.handle_all_messages,
\* which calls self._handle_state_message or self._handle_normal_message.
\* The class has neither attribute (handlers.py defines both outside of it,
\* from line 146 on), so the call raises AttributeError.
HandleAllMessages(c, u, text) ==
    /\ program = "bot"
    /\ text # NewCommand
    /\ handled' = Handled("all", c, u, text, << >>, "none", TRUE)
    /\ UNCHANGED <<cache, db, nextId, clock, th, lastLocal, inval, staleEntry,
                   calls, links, program, user_states, authors, histVars>>

\* main.py: any other text reaches handle_all_messages; without an entry
\* the text is searched for, which changes no entry.
MainHandleAllMessages(c, u, text) ==
    /\ program = "main"
    /\ text # NewCommand
    /\ \E result \in AddResults(program) :
        LET out == IF user_states[c].present
                   THEN MainStateMessage(user_states[c], u, text, result)
                   ELSE Outcome(user_states[c], << >>)
        IN  /\ user_states' = [user_states EXCEPT ![c] = out.entry]
            /\ handled' = Handled("all", c, u, text, out.creates, result,
                                   FALSE)
            /\ authors' = AuthorsAfter(authors, c, user_states[c],
                                        out.entry, u)
    /\ UNCHANGED <<cache, db, nextId, clock, th, lastLocal, inval, staleEntry,
                   calls, links, program, histVars>>

\* The function _handle_state_message of handlers.py, called with a
\* MessageHandlers object as self.
StateMessage(c, u, text) ==
    /\ program = "unit"
    /\ \E result \in AddResults(program) :
        LET out == HandleStateMessage(user_states[c], u, text, result)
        IN  /\ user_states' = [user_states EXCEPT ![c] = out.entry]
            /\ handled' = Handled("state", c, u, text, out.creates, result,
                                   FALSE)
            /\ authors' = AuthorsAfter(authors, c, user_states[c],
                                        out.entry, u)
    /\ UNCHANGED <<cache, db, nextId, clock, th, lastLocal, inval, staleEntry,
                   calls, links, program, histVars>>

----------------------------------------------------------------------------
(* send_text_tree of bot.py on the value of get_note_graph.  In the remote *)
(* payload 'notes' is a dict id -> title, so a note_info is a str; in the  *)
(* graph built from the cache it is a dict with the key 'links'.           *)

StrInfo(title) == [kind |-> "str", title |-> title, links |-> << >>]

\* the payload {notes, graph} as get_note_graph returns it
RemoteGraphData(rows, ls, owner) ==
    LET g == GetAllNotesGraph(rows, ls, owner)
    IN  [notes |-> [id \in DOMAIN g.notes |-> StrInfo(g.notes[id])],
         graph |-> g.graph]

\* "links = []; if isinstance(note_info, dict): links = note_info.get(...)"
TreeLinks(info) == IF info.kind = "dict" THEN info.links ELSE << >>

TreeTitleLen == 20

\* title[:20]
TreeTitle(s) ==
    SubSeq(s, 1, IF Len(s) < TreeTitleLen THEN Len(s) ELSE TreeTitleLen)

\* linked_titles: the titles of the link targets found in notes
LinkedTitles(notes, ls) ==
    LET found == SelectSeq(ls, LAMBDA l : l \in DOMAIN notes)
    IN  [i \in 1..Len(found) |-> TreeTitle(notes[found[i]].title)]

\* the tree lines: for each note its title and the titles listed under it
\* (data.graph is not read)
TextTree(data) ==
    [id \in DOMAIN data.notes |->
        [title |-> data.notes[id].title,
         linked |-> LinkedTitles(data.notes, TreeLinks(data.notes[id]))]]

\* a note_info that is a dict: a value of the graph built from the cache
DictInfo(n) == [kind |-> "dict", title |-> n.title, links |-> n.links]

\* list(notes.values()) of the value a get_note_graph call returned
GraphInfos(ret) ==
    [i \in 1..Len(ret.notes) |->
        IF ret.origin = "remote" THEN StrInfo(ret.notes[i].title)
        ELSE DictInfo(ret.notes[i])]

\* "if not notes:" of both projections
NoNotesNever(infos) == FALSE
NoNotes(infos) == infos = << >>

\* str.split(): the words between the blanks, as a set
RECURSIVE Words(_)
Words(s) ==
    IF s = << >> THEN {}
    ELSE IF Head(s) = " " THEN Words(Tail(s))
    ELSE LET blanks == {i \in 1..Len(s) : s[i] = " "}
             n == IF blanks = {} THEN Len(s)
                  ELSE (CHOOSE i \in blanks : \A j \in blanks : i <= j) - 1
         IN  {SubSeq(s, 1, n)} \cup Words(SubSeq(s, n + 1, Len(s)))

\* title1, title2 of the matrix loop: '' unless the note_info is a dict
MatrixTitle(info) == IF info.kind = "dict" THEN Lower(info.title) ELSE << >>

\* the rows shown: matrix_size = min(notes_count, 10)
MatrixMax == 10

MatrixSize(infos) == IF Len(infos) < MatrixMax THEN Len(infos) ELSE MatrixMax

\* the self-marker of the diagonal (a bullet in the source)
SelfMark == "*"

\* one cell of the matrix
MatrixCellLower(infos, i, j) ==
    IF i <= j THEN SelfMark
    ELSE IF Words(MatrixTitle(infos[i])) \cap Words(MatrixTitle(infos[j])) # {}
         THEN "1" ELSE "0"
MatrixCell(infos, i, j) ==
    IF i = j THEN SelfMark
    ELSE IF Words(MatrixTitle(infos[i])) \cap Words(MatrixTitle(infos[j])) # {}
         THEN "1" ELSE "0"

Matrix(infos) ==
    [i \in 1..MatrixSize(infos) |->
        [j \in 1..MatrixSize(infos) |-> MatrixCell(infos, i, j)]]

\* what send_image_graph sends for the value ret of get_note_graph
SendImageGraph(ret) ==
    LET infos == GraphInfos(ret) IN
    IF NoNotes(infos)
    THEN [msg |-> "no_notes", titles |-> << >>, matrix |-> << >>]
    ELSE [msg |-> "graph",
          titles |-> [i \in 1..Len(infos) |-> infos[i].title],
          matrix |-> Matrix(infos)]

\* what send_text_tree sends for the value ret of get_note_graph
SendTextTree(ret) ==
    LET infos == GraphInfos(ret) IN
    IF NoNotes(infos)
    THEN [msg |-> "no_notes", lines |-> << >>]
    ELSE [msg |-> "tree",
          lines |-> [i \in 1..Len(infos) |->
                        [title |-> infos[i].title,
                         linked |-> TreeLinks(infos[i])]]]

----------------------------------------------------------------------------
(* The service's requests, from any client (server/main.py).               *)

\* POST /api/notes
CreateNote(o, inp) ==
    /\ nextId <= MaxRows
    /\ db' = DbAdd(db, nextId, o, inp)
    /\ nextId' = nextId + 1
    /\ served' = Served("create", nextId, 0, o, 200)
    /\ UNCHANGED <<cache, clock, th, lastLocal, inval, staleEntry, calls,
                   links, convVars, probe, journal>>

\* POST /api/links
CreateLink(from, to, user) ==
    /\ Len(links) < MaxLinks
    /\ links' = IF DbLinkAllowed(db, from, to, user)
                THEN DbAddLink(links, from, to) ELSE links
    /\ served' = Served("link", from, to, user,
                        IF DbLinkAllowed(db, from, to, user)
                        THEN 200 ELSE 400)
    /\ UNCHANGED <<cache, db, nextId, clock, th, lastLocal, inval, staleEntry,
                   calls, convVars, probe, journal>>

\* DELETE /api/notes/{note_id}?user_id=
DeleteNote(id, user) ==
    /\ links' = DbDeleteLinks(links, id)
    /\ db' = DbDelete(db, id, user)
    /\ served' = Served("delete", id, 0, user,
                        IF DbOwns(db, id, user) THEN 200 ELSE 404)
    /\ UNCHANGED <<cache, nextId, clock, th, lastLocal, inval, staleEntry,
                   calls, convVars, probe, journal>>

----------------------------------------------------------------------------
(* health_check called on its own, against any answers of the four paths.  *)
(* The bare "except:" of the loop takes every exception of a request, so   *)
(* none leaves the method.                                                 *)

HealthCheckCall(resp) ==
    /\ probe' = [resp |-> resp,
                 healthy |-> HealthCheckRun(resp).healthy,
                 tried |-> HealthCheckRun(resp).tried,
                 raised |-> FALSE]
    /\ UNCHANGED <<cache, db, nextId, clock, th, lastLocal, inval, staleEntry,
                   calls, links, convVars, served, journal>>

----------------------------------------------------------------------------
(* Specifications                                                          *)

Step(t, bounded) ==
    \/ Call(t, bounded) \/ Return(t)
    \/ AddProbe(t) \/ AddReq(t)
    \/ ListCache(t) \/ ListProbe(t) \/ ListReq(t) \/ ListInstall(t)
    \/ ReadProbe(t) \/ ReadReq(t)
    \/ DelProbe(t) \/ DelReq(t) \/ DelLocal(t) \/ DelWrite(t)
    \/ RequestHangs(t)

\* one call at a time, any number of calls
Next == Tick \/ Step(MainThread, FALSE)

Spec == Init /\ [][Next]_vars

\* one call at a time, with the journal of the calls kept
InitJournal ==
    /\ cache = [o \in Owners |-> Absent]
    /\ db = << >>
    /\ nextId = 1
    /\ clock = ClockStart
    /\ th = [t \in Threads |-> IdleFrame]
    /\ lastLocal = [o \in Owners |-> None]
    /\ inval = [o \in Owners |-> FALSE]
    /\ staleEntry = [o \in Owners |-> FALSE]
    /\ calls = 0
    /\ links = << >>
    /\ program = "bot"
    /\ user_states = [c \in Chats |-> NoEntry]
    /\ handled = NoHandled
    /\ authors = NoAuthorship
    /\ probe = NoProbe
    /\ served = NoServed
    /\ journal = [NoJournal EXCEPT !.on = TRUE]

SpecJournal == InitJournal /\ [][Next]_vars

\* the worker threads of the bot run handlers at once
NextConc == Tick \/ \E t \in Threads : Step(t, TRUE)

SpecConc == Init /\ [][NextConc]_vars

\* the messages of the chats, handled one at a time by one of the programs
InitConv == \E p \in Programs : InitOf(p)

NextConv ==
    \E c \in Chats, u \in Owners :
        \/ NewNote(c, u)
        \/ \E text \in Texts :
            \/ HandleAllMessages(c, u, text)
            \/ MainHandleAllMessages(c, u, text)
            \/ StateMessage(c, u, text)

SpecConv == InitConv /\ [][NextConv]_vars

\* the messages of several users in one chat, with the authors of its
\* entry kept
InitAuthors ==
    /\ cache = [o \in Owners |-> Absent]
    /\ db = << >>
    /\ nextId = 1
    /\ clock = ClockStart
    /\ th = [t \in Threads |-> IdleFrame]
    /\ lastLocal = [o \in Owners |-> None]
    /\ inval = [o \in Owners |-> FALSE]
    /\ staleEntry = [o \in Owners |-> FALSE]
    /\ calls = 0
    /\ links = << >>
    /\ program \in Programs
    /\ user_states = [c \in Chats |-> NoEntry]
    /\ handled = NoHandled
    /\ authors = [NoAuthorship EXCEPT !.on = TRUE]
    /\ probe = NoProbe
    /\ served = NoServed
    /\ journal = NoJournal

GroupChat == CHOOSE c \in Chats : TRUE

NextAuthors ==
    \E u \in Owners :
        \/ NewNote(GroupChat, u)
        \/ \E text \in Texts :
            \/ HandleAllMessages(GroupChat, u, text)
            \/ MainHandleAllMessages(GroupChat, u, text)
            \/ StateMessage(GroupChat, u, text)

SpecAuthors == InitAuthors /\ [][NextAuthors]_vars

\* the service under the requests of its clients
NextGraph ==
    \/ \E o \in Owners, inp \in NoteInputs : CreateNote(o, inp)
    \/ \E from, to \in 1..MaxRows, user \in Owners :
            CreateLink(from, to, user)
    \/ \E id \in 1..MaxRows, user \in Owners : DeleteNote(id, user)

SpecGraph == Init /\ [][NextGraph]_vars

\* the probe under every answer of the liveness paths
NextProbe == \E resp \in ProbeAnswers : HealthCheckCall(resp)

SpecProbe == Init /\ [][NextProbe]_vars

----------------------------------------------------------------------------
(* Claims.  Returned(t, op): thread t's call of op has returned and its    *)
(* frame still holds what it did.                                          *)

Returned(t, op) == th[t].pc = "done" /\ th[t].op = op

InSeq(n, notes) == \E i \in 1..Len(notes) : notes[i] = n

\* the entry the call found, with one note appended
AppendedToPre(f) ==
    /\ HasKey(cache, f.owner)
    /\ cache[f.owner].notes =
            Append(f.pre.notes, LocalNote(f.lid, f.owner, f.inp))

\* C1: a create whose probe is unhealthy makes no remote request, appends
\* exactly one note with a locally assigned id to the owner's entry and
\* returns that id; every list of that owner that returns while no probe
\* has answered healthy since (and the note was not deleted) contains the
\* note, with its id, title and content.
C1_DegradedCreateThenList ==
    \A t \in Threads :
        LET f == th[t] IN
        /\ (Returned(t, "add") /\ ~f.h) =>
                /\ f.reqs = << >>
                /\ f.nlocal = 1
                /\ f.ret.kind = "obj"
                /\ f.ret.id = f.lid
                /\ f.lid \in ClockValues
                /\ AppendedToPre(f)
        /\ (Returned(t, "list") /\ lastLocal[f.owner] # None) =>
                /\ f.ret.kind = "list"
                /\ InSeq(lastLocal[f.owner][1], f.ret.notes)

C1_Witness ==
    \E t \in Threads :
        /\ Returned(t, "list")
        /\ lastLocal[th[t].owner] # None
        /\ Len(th[t].ret.notes) = 2
        /\ th[t].ret.notes[2] = lastLocal[th[t].owner][1]

\* the remote create returned a note / the remote delete returned success
RemoteMutated(f) ==
    /\ f.h
    /\ \/ f.op = "add" /\ f.result.kind = "obj"
       \/ f.op = "delete" /\ f.result.kind \in {"obj", "empty"}

\* C2: when add_note or delete_note has returned after succeeding against
\* the remote store, the cache has no entry for that owner; and a list
\* called while the owner is invalidated is not served from the cache (it
\* probes the remote).
C2_InvalidationOnRemoteMutation ==
    \A t \in Threads :
        LET f == th[t] IN
        /\ (f.pc = "done" /\ RemoteMutated(f)) => ~HasKey(cache, f.owner)
        /\ (Returned(t, "list") /\ f.inv0) =>
                /\ ~f.pre.present
                /\ f.nprobe = 1

C2_Witness ==
    \E t \in Threads :
        /\ Returned(t, "delete")
        /\ RemoteMutated(th[t])
        /\ th[t].pre.present
        /\ th[t].pre.notes # << >>

\* C3: add_note returns an object with an id for every probe outcome and
\* every outcome of the remote create; when the probe is healthy and the
\* create yields no note, the local append runs exactly once and its result
\* is returned; it never returns "no result".
C3_CreateAlwaysYieldsNote ==
    \A t \in Threads :
        LET f == th[t] IN
        Returned(t, "add") =>
            /\ f.ret.kind = "obj"
            /\ f.ret.id > 0
            /\ f.nlocal <= 1
            /\ (f.h /\ f.result.kind = "obj") =>
                    /\ f.nlocal = 0
                    /\ f.ret.id = f.result.id
                    /\ f.ret.origin = "remote"
            /\ (f.h /\ f.result.kind # "obj") =>
                    /\ f.nlocal = 1
                    /\ Len(f.reqs) = 1
                    /\ f.ret.origin = "local"
                    /\ f.ret.id = f.lid
                    /\ AppendedToPre(f)

C3_Witness ==
    \E t \in Threads :
        /\ Returned(t, "add")
        /\ th[t].h
        /\ th[t].result.kind = "empty"
        /\ th[t].nlocal = 1
        /\ th[t].pre.present

ReadOps == {"list", "search", "get", "graph"}

\* every note returned is a note of the given sequence
AllFrom(ret, notes) == \A i \in 1..Len(ret) : InSeq(ret[i], notes)

\* C4 as stated: every read (list, search, get, graph) that finds an entry
\* for the owner is answered with no health probe and no remote request.
C4_Original ==
    \A t \in Threads :
        LET f == th[t] IN
        (f.pc = "done" /\ f.op \in ReadOps /\ f.pre.present) =>
            f.nprobe = 0 /\ f.reqs = << >>

\* C4 amended: list and search are answered from an existing entry with no
\* network call; get and graph run one health probe first and, when it is
\* healthy, one remote request, and are answered from the entry, with no
\* further network call, when that attempt yields no object.
C4_CachePriorityOnListAndSearch ==
    \A t \in Threads :
        LET f == th[t] IN
        (f.pc = "done" /\ f.pre.present) =>
            /\ f.op \in {"list", "search"} =>
                    /\ f.nprobe = 0
                    /\ f.reqs = << >>
                    /\ f.ret.kind = "list"
                    /\ f.op = "list" => f.ret.notes = f.pre.notes
                    /\ f.op = "search" => AllFrom(f.ret.notes, f.pre.notes)
            /\ f.op \in {"get", "graph"} =>
                    /\ f.nprobe = 1
                    /\ Len(f.reqs) = (IF f.h THEN 1 ELSE 0)
                    /\ f.ret.origin # "remote" =>
                            /\ f.notes = f.pre.notes
                            /\ f.op = "get" =>
                                    (f.ret.kind = "note") =
                                        HasId(f.pre.notes, f.nid)
                            /\ f.op = "graph" =>
                                    {f.ret.notes[i].id :
                                        i \in 1..Len(f.ret.notes)} =
                                    {f.pre.notes[i].id :
                                        i \in 1..Len(f.pre.notes)}

C4_Witness ==
    \E t \in Threads :
        /\ Returned(t, "get")
        /\ th[t].pre.present
        /\ th[t].h
        /\ Len(th[t].reqs) = 1
        /\ th[t].ret.kind = "note"

\* C5: with the calls run one at a time, a list called while the owner's
\* entry is invalidated by a successful remote create or delete, and not
\* yet repopulated, returns the remote store's current notes of the owner
\* or the empty sequence, never what was cached before the write.
C5_NoStaleReadAfterInvalidation ==
    \A t \in Threads :
        LET f == th[t] IN
        (Returned(t, "list") /\ f.inv0) =>
            /\ f.ret.kind = "list"
            /\ \/ f.ret.notes = << >>
               \/ f.ret.notes = DbList(db, f.owner)

C5_Witness ==
    \E t \in Threads :
        /\ Returned(t, "list")
        /\ th[t].inv0
        /\ th[t].ret.notes # << >>

\* C6: no entry of the cache was installed by a read that fetched before a
\* later successful remote mutation of that owner.
C6_NoStaleInstall ==
    \A o \in Owners : ~(HasKey(cache, o) /\ staleEntry[o])

\* C7: the local removal of delete_note takes effect as one step: when it
\* writes the entry back, the entry is the one it found without the notes
\* of the given id, so a note appended meanwhile is still there.
C7_LocalRemovalIsSerial ==
    [][\A t \in Threads :
          (th[t].pc = "del_write" /\ th'[t].pc = "done") =>
              cache'[th[t].owner].notes =
                  RemoveById(cache[th[t].owner].notes, th[t].nid)]_vars

\* C8: delete_note returns true exactly when the probe was healthy and the
\* remote delete succeeded (the owner's entry is then removed), or the
\* remote path did not succeed and a note with the id was removed from the
\* owner's existing entry; otherwise it returns false and the owner's entry
\* is as it was.
C8_DeleteRoutingAndResult ==
    \A t \in Threads :
        LET f == th[t]
            remoteOk == RemoteMutated(f)
            matched == f.pre.present /\ HasId(f.pre.notes, f.nid)
        IN  Returned(t, "delete") =>
                /\ f.ret.kind = "bool"
                /\ f.ret.ok = (remoteOk \/ matched)
                /\ remoteOk => ~HasKey(cache, f.owner)
                /\ (~remoteOk /\ matched) =>
                        /\ HasKey(cache, f.owner)
                        /\ cache[f.owner].notes =
                                RemoveById(f.pre.notes, f.nid)
                /\ ~f.ret.ok => cache[f.owner] = f.pre

C8_Witness ==
    \E t \in Threads :
        /\ Returned(t, "delete")
        /\ th[t].h
        /\ th[t].result.kind = "none"
        /\ th[t].ret.ok
        /\ cache[th[t].owner].notes # << >>

\* the match the specification asks for: a note without tags has no tag text
TagText(n) == IF n.tags = None THEN << >> ELSE n.tags[1]

QueryOccurs(n, q) ==
    \/ Contains(Lower(n.title), Lower(q))
    \/ Contains(Lower(n.content), Lower(q))
    \/ (n.tags # None /\ Contains(Lower(TagText(n)), Lower(q)))

\* C9: search_notes returns exactly the notes get_user_notes yielded, in
\* order, whose title, content or tag text contains the query without
\* regard to case, a note without tags having no tag text; it never calls
\* the remote search endpoint.
C9_SearchResultSet ==
    \A t \in Threads :
        LET f == th[t] IN
        Returned(t, "search") =>
            /\ f.ret.kind = "list"
            /\ f.ret.notes =
                    SelectSeq(f.notes, LAMBDA n : QueryOccurs(n, f.query))
            /\ \A i \in 1..Len(f.reqs) : f.reqs[i] = "GET /api/notes/{user_id}"

\* C10: a search whose query occurs in no title, content or tags of the
\* owner's notes (also when there are none, or the remote is unreachable)
\* returns the empty sequence.
C10_NoMatchIsEmpty ==
    \A t \in Threads :
        LET f == th[t] IN
        (/\ Returned(t, "search")
         /\ \A i \in 1..Len(f.notes) : ~QueryOccurs(f.notes[i], f.query)) =>
            f.ret.kind = "list" /\ f.ret.notes = << >>

\* the list missed the cache, its probe was healthy and its request gave a
\* sequence
FetchedList(f) == ~f.pre.present /\ f.h /\ f.result.kind = "list"

\* C11: a list that finds no entry, whose probe is healthy and whose
\* request returns a sequence (the empty one too) returns that sequence and
\* leaves it as the owner's entry; a list that finds an entry returns the
\* entry's notes with no probe and no request.
C11_ReadThroughPopulation ==
    \A t \in Threads :
        LET f == th[t] IN
        Returned(t, "list") =>
            /\ FetchedList(f) =>
                    /\ f.ret = RetList(f.result.notes)
                    /\ cache[f.owner] =
                            [present |-> TRUE, notes |-> f.result.notes]
                    /\ f.reqs = <<"GET /api/notes/{user_id}">>
            /\ f.pre.present =>
                    /\ f.ret = RetList(f.pre.notes)
                    /\ f.nprobe = 0
                    /\ f.reqs = << >>

C11_Witness ==
    \E t \in Threads :
        /\ Returned(t, "list")
        /\ FetchedList(th[t])
        /\ th[t].result.notes = << >>
        /\ cache[th[t].owner] = [present |-> TRUE, notes |-> << >>]

\* C12: a list that finds no entry and whose probe is unhealthy, or whose
\* request fails or returns no sequence, returns the empty sequence and the
\* owner has no entry afterwards.
C12_FailedReadLeavesCache ==
    \A t \in Threads :
        LET f == th[t] IN
        (Returned(t, "list") /\ ~f.pre.present /\ ~FetchedList(f)) =>
            /\ f.ret = RetList(<< >>)
            /\ ~HasKey(cache, f.owner)
            /\ cache[f.owner] = f.pre

C12_Witness ==
    \E t \in Threads :
        /\ Returned(t, "list")
        /\ ~th[t].pre.present
        /\ th[t].h
        /\ th[t].result.kind = "empty"
        /\ ~HasKey(cache, th[t].owner)

\* C13: within one owner's entry no id that _add_note_local assigned equals
\* an id that the service assigned.
C13_LocalRemoteIdsDisjoint ==
    \A o \in Owners :
        \A i, j \in 1..Len(cache[o].notes) :
            (cache[o].notes[i].local /\ ~cache[o].notes[j].local) =>
                cache[o].notes[i].id # cache[o].notes[j].id

C13_Witness ==
    \E o \in Owners :
        \E i, j \in 1..Len(cache[o].notes) :
            /\ cache[o].notes[i].local
            /\ ~cache[o].notes[j].local
            /\ cache[o].notes[j].id < nextId

\* the notes of the cache that _add_note_local appended, as <<owner, index>>
LocalSlots ==
    {s \in Owners \X (1..MaxEntry) :
        /\ s[2] <= Len(cache[s[1]].notes)
        /\ cache[s[1]].notes[s[2]].local}

\* C14: any two notes appended by _add_note_local that the cache holds,
\* of one owner or of two, have different ids.
C14_LocalIdsUnique ==
    \A s1, s2 \in LocalSlots :
        s1 # s2 => cache[s1[1]].notes[s1[2]].id # cache[s2[1]].notes[s2[2]].id

\* a message reached a handler of the state machine (not the command /new)
StateInput == handled.via \in {"all", "state"}

\* the entry of the message's chat when the message arrived
BeforeEntry ==
    IF handled.chat \in Chats THEN handled.before[handled.chat] ELSE NoEntry

\* C15: a cancel input received while the chat has an entry (awaiting
\* title, content or tags) removes the entry and makes no create call, on
\* every message path.
C15_CancelFromAnyState ==
    (StateInput /\ handled.text = CancelText /\ BeforeEntry.present) =>
        /\ ~user_states[handled.chat].present
        /\ handled.creates = << >>
        /\ ~handled.raised

\* C16: a non-cancel input received in awaiting-tags makes exactly one
\* add_note call, with the title and the content collected and the tags
\* the stripped text, or None when that is empty; an input received in any
\* other state makes no add_note call.
C16_CommitIsOneCreate ==
    /\ (/\ StateInput
        /\ BeforeEntry.present
        /\ BeforeEntry.state = "waiting_tags"
        /\ handled.text # CancelText) =>
            /\ BeforeEntry.title # None
            /\ BeforeEntry.content # None
            /\ handled.creates =
                    <<CreateCall(handled.user, BeforeEntry.title[1],
                                 BeforeEntry.content[1],
                                 IF Strip(handled.text) = << >> THEN None
                                 ELSE Some(Strip(handled.text)))>>
    /\ ~(BeforeEntry.present /\ BeforeEntry.state = "waiting_tags") =>
            handled.creates = << >>

C16_Witness ==
    /\ StateInput
    /\ Len(handled.creates) = 1
    /\ handled.text # Strip(handled.text)
    /\ handled.creates[1].tags = Some(<<"b">>)

\* C17: once the input received in awaiting-tags is handled the chat has no
\* entry, whatever add_note returned, and at most one add_note call was
\* made for it.
C17_CommitReturnsToIdle ==
    (StateInput /\ BeforeEntry.present /\ BeforeEntry.state = "waiting_tags") =>
        /\ ~user_states[handled.chat].present
        /\ Len(handled.creates) <= 1

C17_Witness ==
    /\ StateInput
    /\ BeforeEntry.state = "waiting_tags"
    /\ Len(handled.creates) = 1
    /\ handled.result = "none"
    /\ ~user_states[handled.chat].present

\* C18: the command /new, in any state of the chat, leaves the chat with
\* the entry awaiting-title without title or content, makes no add_note
\* call and leaves the entry of every other chat as it was.
C18_NewNoteOverwrites ==
    handled.via = "new" =>
        /\ user_states[handled.chat] = Entry("waiting_title", None, None)
        /\ handled.creates = << >>
        /\ \A c \in Chats \ {handled.chat} :
                user_states[c] = handled.before[c]

C18_Witness ==
    /\ handled.via = "new"
    /\ BeforeEntry.state = "waiting_tags"
    /\ user_states[handled.chat].state = "waiting_title"
    /\ \E c \in Chats \ {handled.chat} : user_states[c].present

\* the neighbour lists of the owner's graph
AdjOf(o) == GetAllNotesGraph(db, links, o).graph

\* C19: for every owner and every stored link (a, b) between two notes of
\* that owner, the adjacency mapping of get_all_notes_graph has b among the
\* neighbours of a and a among the neighbours of b.
C19_SymmetricAdjacency ==
    \A o \in Owners :
        \A i \in 1..Len(links) :
            LET a == links[i].from
                b == links[i].to
            IN  (a \in OwnedIds(db, o) /\ b \in OwnedIds(db, o)) =>
                    /\ a \in DOMAIN AdjOf(o)
                    /\ b \in DOMAIN AdjOf(o)
                    /\ \E k \in 1..Len(AdjOf(o)[a]) : AdjOf(o)[a][k] = b
                    /\ \E k \in 1..Len(AdjOf(o)[b]) : AdjOf(o)[b][k] = a

C19_Witness ==
    \E o \in Owners :
        \E i \in 1..Len(links) :
            /\ links[i].from # links[i].to
            /\ links[i].from \in OwnedIds(db, o)
            /\ links[i].to \in OwnedIds(db, o)
            /\ Len(AdjOf(o)[links[i].to]) = 2

\* C20: in the tree that send_text_tree builds from the remote payload of
\* an owner, every note with a linked neighbour lists the titles of its
\* neighbours.
C20_TreeShowsLinks ==
    \A o \in Owners :
        LET data == RemoteGraphData(db, links, o)
            tree == TextTree(data)
        IN  \A id \in DOMAIN data.graph :
                \A k \in 1..Len(data.graph[id]) :
                    \E j \in 1..Len(tree[id].linked) :
                        tree[id].linked[j] =
                            TreeTitle(data.notes[data.graph[id][k]].title)

\* a get_note_graph call has returned to the projection that made it
GraphReturned(t) == Returned(t, "graph")

\* C21: for every non-empty note set the matrix of send_image_graph has the
\* self-marker in every cell (i, i) and in no other cell, and cell (i, j)
\* equals cell (j, i).
C21_MatrixDiagonalAndSymmetry ==
    \A t \in Threads :
        (GraphReturned(t) /\ th[t].ret.notes # << >>) =>
            LET out == SendImageGraph(th[t].ret)
                n == Len(out.matrix)
            IN  /\ out.msg = "graph"
                /\ n = Len(th[t].ret.notes)
                /\ \A i, j \in 1..n :
                        /\ (out.matrix[i][j] = SelfMark) = (i = j)
                        /\ out.matrix[i][j] = out.matrix[j][i]

C21_Witness ==
    \E t \in Threads :
        /\ GraphReturned(t)
        /\ Len(th[t].ret.notes) = 2
        /\ SendImageGraph(th[t].ret).matrix[1][2] = "1"

\* C22: when the graph data has no notes, send_text_tree and
\* send_image_graph send the 'no notes' message only, no tree and no matrix.
C22_EmptyNodeSetShortCircuits ==
    \A t \in Threads :
        (GraphReturned(t) /\ th[t].ret.notes = << >>) =>
            /\ SendTextTree(th[t].ret) =
                    [msg |-> "no_notes", lines |-> << >>]
            /\ SendImageGraph(th[t].ret) =
                    [msg |-> "no_notes", titles |-> << >>, matrix |-> << >>]

C22_Witness ==
    \E t \in Threads :
        /\ GraphReturned(t)
        /\ ~th[t].h
        /\ ~HasKey(cache, th[t].owner)
        /\ SendTextTree(th[t].ret).msg = "no_notes"

\* the kinds of value each method returns
NormalKinds(op) ==
    CASE op = "add" -> {"obj"}
      [] op \in {"list", "search"} -> {"list"}
      [] op = "graph" -> {"obj", "graph"}
      [] op = "get" -> {"obj", "note", "none"}
      [] OTHER -> {"bool"}

\* C23: for every outcome of a remote request (transport error, timeout,
\* error status, undecodable body, unexpected error) and every probe
\* result, each method returns a value of its normal kind and no exception
\* leaves it.
C23_FailuresNeverEscape ==
    \A t \in Threads :
        LET f == th[t] IN
        f.pc = "done" =>
            /\ f.ret.kind # "raised"
            /\ f.result.kind # "raised"
            /\ f.ret.kind \in NormalKinds(f.op)

C23_Witness ==
    \E t \in Threads :
        /\ Returned(t, "delete")
        /\ th[t].h
        /\ th[t].result.kind = "none"
        /\ th[t].ret = RetBool(FALSE)

\* C24: one call of a method makes at most one health probe and at most
\* one remote data request; after a failed remote attempt it takes the
\* local path without contacting the remote again.
C24_OneProbeOneRequest ==
    \A t \in Threads :
        th[t].pc = "done" => th[t].nprobe <= 1 /\ Len(th[t].reqs) <= 1

\* C25: every network call is bounded by a timeout, so no call of a method
\* stays in a request that the remote never answers: each call returns.
C25_EveryCallReturns ==
    \A t \in Threads : th[t].pc # "blocked"

\* the paths of the last probe that answered with a status below 500
AnsweredPaths ==
    {i \in DOMAIN probe.resp : probe.resp[i] >= 0 /\ probe.resp[i] < 500}

\* C26: health_check requests the liveness paths in order, returns healthy
\* exactly when some path answers with a status below 500 and stops at the
\* first such path; paths that fail or answer 500 or more are skipped, all
\* of them skipped gives unhealthy; it never raises, and the cache and the
\* service's tables stay as they were.
C26_ProbeResultAndStop ==
    /\ cache = [o \in Owners |-> Absent]
    /\ db = << >> /\ links = << >> /\ nextId = 1
    /\ probe.resp # << >> =>
        /\ ~probe.raised
        /\ probe.healthy = (AnsweredPaths # {})
        /\ probe.healthy = HealthCheck(probe.resp)
        /\ probe.tried =
                IF AnsweredPaths = {} THEN Len(probe.resp)
                ELSE CHOOSE i \in AnsweredPaths :
                        \A j \in AnsweredPaths : i <= j

C26_Witness ==
    /\ probe.resp = <<-1, 500, 404, 200>>
    /\ probe.healthy
    /\ probe.tried = 3

\* the row id is a note of the user in the tables the last request found
ServedOwns(id, user) ==
    \E i \in 1..Len(served.db) :
        served.db[i].id = id /\ served.db[i].user_id = user

\* C27: a link request stores the link and answers with success exactly
\* when the from-note and the to-note both exist and both belong to the
\* given owner; otherwise it answers with a failure and the notes and the
\* links are as before.
C27_LinkOwnerChecked ==
    served.req = "link" =>
        LET both == ServedOwns(served.from, served.user)
                    /\ ServedOwns(served.to, served.user)
        IN  /\ (served.status = 200) = both
            /\ ~both => served.status = 400
            /\ db = served.db
            /\ links = IF both
                       THEN Append(served.links,
                                   [from |-> served.from, to |-> served.to])
                       ELSE served.links

C27_Witness ==
    /\ served.req = "link"
    /\ served.status = 200
    /\ served.from # served.to
    /\ Len(links) = Len(served.links) + 1

Phases == {"waiting_title", "waiting_content", "waiting_tags"}

PhaseOf(e) == IF e.present THEN e.state ELSE "idle"

\* the phase changes of the chat of the last message that the state machine
\* of the conversation has
PhaseChangeAllowed(a, b) ==
    \/ a = b
    \/ a = "waiting_title" /\ b = "waiting_content"
    \/ a = "waiting_content" /\ b = "waiting_tags"
    \/ b = "waiting_title" /\ handled.via = "new"
    \/ b = "idle" /\ (handled.text = CancelText \/ handled.creates # << >>)

\* C28: every entry of user_states is in one of the phases awaiting title,
\* content, tags; an entry awaiting content holds a title, an entry
\* awaiting tags holds a title and a content; and a message changes the
\* phase of its chat only from idle or any phase to awaiting title (new
\* note), from awaiting title to awaiting content, from awaiting content to
\* awaiting tags, or from any phase to idle (cancel, commit), and the phase
\* of no other chat.
C28_PhaseProgression ==
    /\ \A c \in Chats :
        LET e == user_states[c] IN
        IF e.present
        THEN /\ e.state \in Phases
             /\ e.state = "waiting_title" \/ e.title # None
             /\ e.state = "waiting_tags" => e.content # None
        ELSE e = NoEntry
    /\ handled.via # "none" =>
        \A c \in Chats :
            IF c = handled.chat
            THEN PhaseChangeAllowed(PhaseOf(handled.before[c]),
                                    PhaseOf(user_states[c]))
            ELSE user_states[c] = handled.before[c]

C28_Witness ==
    /\ program = "unit"
    /\ handled.via = "state"
    /\ BeforeEntry.state = "waiting_content"
    /\ user_states[handled.chat].state = "waiting_tags"
    /\ user_states[handled.chat].content # None
    /\ \E c \in Chats \ {handled.chat} :
            user_states[c].state = "waiting_title"

\* C29: in bot.py every text message that is no command is handled by
\* MessageHandlers.handle_all_messages without raising; with an entry for
\* the chat the entry becomes what the state handler makes of it, without
\* an entry no entry appears or changes.
C29_DispatchReachesStateMachine ==
    (program = "bot" /\ handled.via = "all") =>
        /\ ~handled.raised
        /\ IF BeforeEntry.present
           THEN \E result \in AddResults(program) :
                    LET out == HandleStateMessage(BeforeEntry, handled.user,
                                                  handled.text, result)
                    IN  /\ user_states[handled.chat] = out.entry
                        /\ handled.creates = out.creates
           ELSE user_states = handled.before /\ handled.creates = << >>

\* C30: in the matrix that send_image_graph builds from the remote payload
\* of an owner, which carries the adjacency lists, an off-diagonal cell
\* (i, j) is "1" exactly when note j is a neighbour of note i.
C30_MatrixShowsLinks ==
    \A o \in Owners :
        LET nodes == DbGraphNodes(db, o)
            out == SendImageGraph(RetGraph(nodes, "remote"))
        IN  \A i, j \in 1..Len(out.matrix) :
                i # j =>
                    ((out.matrix[i][j] = "1") =
                        /\ nodes[i].id \in DOMAIN AdjOf(o)
                        /\ \E k \in 1..Len(AdjOf(o)[nodes[i].id]) :
                                AdjOf(o)[nodes[i].id][k] = nodes[j].id)

\* the owner of the row id, 0 when there is no such row
OwnerOfRow(id) ==
    IF \E i \in 1..Len(db) : db[i].id = id
    THEN db[CHOOSE i \in 1..Len(db) : db[i].id = id].user_id
    ELSE 0

\* C31: after any create-note, create-link and delete-note requests of any
\* owners, the from-note and the to-note of every stored link both exist
\* and belong to one owner.
C31_LinkIntegrity ==
    \A i \in 1..Len(links) :
        /\ OwnerOfRow(links[i].from) # 0
        /\ OwnerOfRow(links[i].to) = OwnerOfRow(links[i].from)

C31_Witness ==
    /\ served.req = "delete"
    /\ served.status = 200
    /\ \E i \in 1..Len(served.links) :
            /\ served.links[i].from # served.links[i].to
            /\ served.from \in {served.links[i].from, served.links[i].to}
    /\ links # << >>
    /\ db # << >>

\* C32: in the result of get_all_notes_graph for an owner, every note id
\* of the node set is a key of the adjacency mapping, and every key and
\* every neighbour id is a note id of the node set.
C32_AdjacencyCoversNodes ==
    \A o \in Owners :
        /\ OwnedIds(db, o) \subseteq DOMAIN AdjOf(o)
        /\ DOMAIN AdjOf(o) \subseteq OwnedIds(db, o)
        /\ \A id \in DOMAIN AdjOf(o) :
                \A k \in 1..Len(AdjOf(o)[id]) :
                    AdjOf(o)[id][k] \in OwnedIds(db, o)

\* C36: a delete request for a note that the user does not own, or that
\* does not exist, answers with a failure and leaves the notes and the
\* links of the service as they were.
C36_ForeignDeleteChangesNothing ==
    (served.req = "delete" /\ ~ServedOwns(served.from, served.user)) =>
        /\ served.status = 404
        /\ db = served.db
        /\ links = served.links

\* C33: a note appended by the local fallback for an owner is in the result
\* of every later get_user_notes of the owner, until a delete_note for its
\* id has returned True, whatever creates, deletes, reads and probe
\* results come in between.
C33_LocalNotesKept ==
    \A t \in Threads :
        Returned(t, "list") =>
            \A id \in journal.live[th[t].owner] :
                \E i \in 1..Len(th[t].ret.notes) :
                    /\ th[t].ret.notes[i].id = id
                    /\ th[t].ret.notes[i].local

\* C34: once delete_note(id, owner) has returned True, no later
\* get_user_notes, search_notes or get_note_by_id of the owner returns the
\* note with that id.
C34_DeleteIsFinal ==
    \A t \in Threads :
        (th[t].pc = "done" /\ th[t].op \in {"list", "search", "get"}
            /\ th[t].ret.kind \in {"list", "note"}) =>
            \A i \in 1..Len(th[t].ret.notes) :
                th[t].ret.notes[i].id \notin journal.deleted[th[t].owner]

\* C35: an add_note call that has returned left exactly one new note: a
\* row of the service or a note of the owner's cache entry, never both,
\* also when the service ran the create and the answer was lost, timed out
\* or could not be used.
C35_CreateStoresOnce ==
    \A t \in Threads :
        Returned(t, "add") =>
            \/ th[t].ran /\ th[t].nlocal = 0
            \/ ~th[t].ran /\ th[t].nlocal = 1

\* the calls that return notes of the owner's entry
NoteReads == {"list", "search", "get"}

\* one step of a call: the entries it writes and, when it returns notes
\* read from the cache, the entry they are from
IsolatedStep ==
    /\ \A o \in Owners :
        cache'[o] # cache[o] =>
            \E t \in Threads : th[t].pc # "idle" /\ th[t].owner = o
    /\ \A t \in Threads :
        (/\ th[t].pc # "done" /\ th'[t].pc = "done"
         /\ th'[t].op \in NoteReads
         /\ th'[t].pre.present
         /\ th'[t].ret.kind \in {"list", "note"}) =>
            \A i \in 1..Len(th'[t].ret.notes) :
                /\ InSeq(th'[t].ret.notes[i], cache[th'[t].owner].notes)
                /\ th'[t].ret.notes[i].user_id = th'[t].owner

\* C37: a call of add_note, get_user_notes, search_notes, get_note_graph,
\* get_note_by_id or delete_note for an owner, whatever its outcome,
\* leaves the cache entry of every other owner as it was, and the notes it
\* returns from the cache are notes of the entry of its owner.
C37_OwnerIsolation == [][IsolatedStep]_vars

C37_Witness ==
    \E t \in Threads :
        /\ Returned(t, "delete")
        /\ th[t].ret = RetBool(TRUE)
        /\ th[t].result.kind # "none"
        /\ th[t].pre.notes # << >>
        /\ ~HasKey(cache, th[t].owner)
        /\ \E o \in Owners \ {th[t].owner} : cache[o].notes # << >>

\* C38: the add_note call of a commit has as its owner the user whose
\* new-note command made the entry of the chat, and the title and the
\* content of the entry were sent by that user.
C38_CommitBelongsToStarter ==
    handled.creates # << >> =>
        LET a == authors.of[handled.chat] IN
        /\ handled.creates[1].user_id = a.new
        /\ a.title = a.new
        /\ a.content = a.new

====
